---- MODULE Spec2Model ----
(***************************************************************************)
(* Model of env-interpolation (index.ts): the placeholder scanner, the     *)
(* parser, the name validator, the multi-pass substitution engine          *)
(* (replace) and the structural traverser (traverse / interpolate).        *)
(*                                                                         *)
(* Strings are sequences of one-character strings.  Indices (start, end,   *)
(* searchFrom) are 0-based as in the source; At and Substring convert.     *)
(***************************************************************************)
EXTENDS Integers, Sequences, FiniteSets, TLC

\* ------------------------------------------------------------------------
\* Bounds of the explored input space
\* ------------------------------------------------------------------------
MaxBackslashes == 3
MaxPassesBound == 3
MaxChain == 3
MaxObjects == 2
MaxSlots == 3
MaxPlaceholders == 4

\* ------------------------------------------------------------------------
\* Program constants
\* ------------------------------------------------------------------------
MAX_INTERPOLATION_PASSES == 10

BS == "\\"
DQ == "\""
SQ == "'"

\* Characters.  Those outside ASCII are written by their code point.
UpperLetters ==
  <<"A", "B", "C", "D", "E", "F", "G", "H", "I", "J", "K", "L", "M",
    "N", "O", "P", "Q", "R", "S", "T", "U", "V", "W", "X", "Y", "Z">>
LowerLetters ==
  <<"a", "b", "c", "d", "e", "f", "g", "h", "i", "j", "k", "l", "m",
    "n", "o", "p", "q", "r", "s", "t", "u", "v", "w", "x", "y", "z">>
Letters == {UpperLetters[i] : i \in 1..26} \cup {LowerLetters[i] : i \in 1..26}
Digits == {"0", "1", "2", "3", "4", "5", "6", "7", "8", "9"}
Punctuation == {"_", "-", "@", ":", "{", "}", "$", " ", "!", ".", "\n", BS, DQ, SQ}
LongS == "U+017F"
DotlessI == "U+0131"
KelvinSign == "U+212A"
EAcute == "U+00E9"
NonAscii == {LongS, DotlessI, KelvinSign, EAcute}
Characters == Letters \cup Digits \cup Punctuation \cup NonAscii

\* String.prototype.toUpperCase on one character
ToUpperCase(ch) ==
  IF \E i \in 1..26 : LowerLetters[i] = ch
  THEN UpperLetters[CHOOSE i \in 1..26 : LowerLetters[i] = ch]
  ELSE IF ch = LongS THEN "S"
  ELSE IF ch = DotlessI THEN "I"
  ELSE ch

\* Canonicalize of a case-insensitive, non-unicode regular expression: the upper
\* case form, except that a character outside ASCII never folds into ASCII
Canonicalize(ch) ==
  LET cu == ToUpperCase(ch)
  IN IF ch \in NonAscii /\ cu \notin NonAscii THEN ch ELSE cu

\* the class [A-Z0-9_] as written
CharacterClass == {UpperLetters[i] : i \in 1..26} \cup Digits \cup {"_"}

\* /^[A-Z0-9_]+$/i: the characters the class matches under the i flag
VAR_NAME_RE ==
  {ch \in Characters : \E c \in CharacterClass : Canonicalize(c) = Canonicalize(ch)}

\* ------------------------------------------------------------------------
\* JavaScript string primitives
\* ------------------------------------------------------------------------
Min(a, b) == IF a < b THEN a ELSE b
Max(a, b) == IF a > b THEN a ELSE b

\* str[i] with a 0-based index; out of range reads give undefined ("").
At(str, i) == IF i >= 0 /\ i < Len(str) THEN str[i + 1] ELSE ""

\* String.prototype.substring(a, b): clamps both to [0, length], swaps if a > b.
Substring(str, a, b) ==
  LET ca == Max(0, Min(a, Len(str)))
      cb == Max(0, Min(b, Len(str)))
  IN SubSeq(str, Min(ca, cb) + 1, Max(ca, cb))

\* str.substring(a): to the end of the string.
SubstringFrom(str, a) == Substring(str, a, Len(str))

\* String.prototype.slice(1, -1)
SliceInner(s) == IF Len(s) - 1 <= 1 THEN <<>> ELSE SubSeq(s, 2, Len(s) - 1)

\* "\\".repeat(n) for n >= 0 (a negative count throws RangeError, see RepeatThrows).
Repeat(ch, n) == [i \in 1..n |-> ch]
RepeatThrows(n) == n < 0

StartsWith(s, ch) == Len(s) > 0 /\ s[1] = ch
EndsWith(s, ch) == Len(s) > 0 /\ s[Len(s)] = ch

\* ------------------------------------------------------------------------
\* unquote
\* ------------------------------------------------------------------------
\* variant: only double quotes are stripped, each end on its own
\* (s.replace(/^"|"$/g, ""))
Unquote_DoubleOnly(s) ==
  LET lead == IF StartsWith(s, DQ) THEN SubSeq(s, 2, Len(s)) ELSE s
  IN IF Len(s) > 1 /\ EndsWith(lead, DQ) THEN SubSeq(lead, 1, Len(lead) - 1) ELSE lead

Unquote(s) ==
  IF (StartsWith(s, DQ) /\ EndsWith(s, DQ)) \/ (StartsWith(s, SQ) /\ EndsWith(s, SQ))
  THEN SliceInner(s)
  ELSE s

\* ------------------------------------------------------------------------
\* findNextPlaceholder
\* ------------------------------------------------------------------------
NoMatch == [found |-> FALSE, start |-> -1, end |-> -1, inner |-> <<>>, full |-> <<>>]

\* first loop: smallest i >= fromIndex, i < length - 1, with "$" then "{"
RECURSIVE FindStart(_, _)
FindStart(str, i) ==
  IF i >= Len(str) - 1 THEN -1
  ELSE IF At(str, i) = "$" /\ At(str, i + 1) = "{" THEN i
  ELSE FindStart(str, i + 1)

\* variant: the first closing brace ends the placeholder
RECURSIVE FindEnd_FirstClose(_, _, _)
FindEnd_FirstClose(str, i, braceCount) ==
  IF i >= Len(str) THEN -1
  ELSE IF At(str, i) = "}" THEN i
  ELSE FindEnd_FirstClose(str, i + 1, braceCount)

\* second loop: brace counting from start + 2; -1 when the braces never balance
RECURSIVE FindEnd(_, _, _)
FindEnd(str, i, braceCount) ==
  IF i >= Len(str) THEN -1
  ELSE IF At(str, i) = "{" THEN FindEnd(str, i + 1, braceCount + 1)
  ELSE IF At(str, i) = "}"
       THEN IF braceCount - 1 = 0 THEN i ELSE FindEnd(str, i + 1, braceCount - 1)
  ELSE FindEnd(str, i + 1, braceCount)

\* variant: an opener that is never closed is skipped and the search goes on
RECURSIVE FindNextPlaceholder_SkipsUnclosed(_, _)
FindNextPlaceholder_SkipsUnclosed(str, fromIndex) ==
  LET start == FindStart(str, fromIndex)
  IN IF start = -1 THEN NoMatch
     ELSE LET end == FindEnd(str, start + 2, 1)
          IN IF end = -1 THEN FindNextPlaceholder_SkipsUnclosed(str, start + 2)
             ELSE [found |-> TRUE, start |-> start, end |-> end,
                   inner |-> Substring(str, start + 2, end),
                   full |-> Substring(str, start, end + 1)]

FindNextPlaceholder(str, fromIndex) ==
  LET start == FindStart(str, fromIndex)
  IN IF start = -1 THEN NoMatch
     ELSE LET end == FindEnd(str, start + 2, 1)
          IN IF end = -1 THEN NoMatch
             ELSE [found |-> TRUE, start |-> start, end |-> end,
                   inner |-> Substring(str, start + 2, end),
                   full |-> Substring(str, start, end + 1)]

\* ------------------------------------------------------------------------
\* parsePlaceholder
\* ------------------------------------------------------------------------
RECURSIVE IndexOf(_, _, _)
IndexOf(s, ch, i) ==
  IF i >= Len(s) THEN -1
  ELSE IF At(s, i) = ch THEN i
  ELSE IndexOf(s, ch, i + 1)

\* variant: the split is at the last colon (inner.lastIndexOf(":"))
ParsePlaceholder_LastColon(inner) ==
  LET colons == {i \in 0..(Len(inner) - 1) : At(inner, i) = ":"}
      idx == IF colons = {} THEN -1 ELSE CHOOSE i \in colons : \A j \in colons : j <= i
  IN IF idx = -1
     THEN [key |-> inner, hasDefault |-> FALSE, defaultValue |-> <<>>]
     ELSE [key |-> Substring(inner, 0, idx), hasDefault |-> TRUE,
           defaultValue |-> SubstringFrom(inner, idx + 1)]

\* hasDefault = FALSE stands for defaultValue === undefined
ParsePlaceholder(inner) ==
  LET idx == IndexOf(inner, ":", 0)
  IN IF idx = -1
     THEN [key |-> inner, hasDefault |-> FALSE, defaultValue |-> <<>>]
     ELSE [key |-> Substring(inner, 0, idx), hasDefault |-> TRUE,
           defaultValue |-> SubstringFrom(inner, idx + 1)]

\* ------------------------------------------------------------------------
\* isValidVarName
\* ------------------------------------------------------------------------
\* variant: the empty name is accepted (/^[A-Z0-9_]*$/i)
IsValidVarName_EmptyAccepted(key) == \A i \in 1..Len(key) : key[i] \in VAR_NAME_RE

IsValidVarName(key) == Len(key) > 0 /\ \A i \in 1..Len(key) : key[i] \in VAR_NAME_RE

\* ------------------------------------------------------------------------
\* variables[key] and String(value)
\* ------------------------------------------------------------------------
Undefined == [t |-> "undefined", s |-> <<>>]
Str(s) == [t |-> "string", s |-> s]

toString == <<"t", "o", "S", "t", "r", "i", "n", "g">>

\* Members every plain object inherits from Object.prototype (the model keeps one).
ObjectPrototype == {toString}

\* Property read on a plain object: an own entry first, then the prototype chain.
Lookup(vars, key) ==
  IF key \in DOMAIN vars THEN Str(vars[key])
  ELSE IF key \in ObjectPrototype THEN [t |-> "function", s |-> key]
  ELSE Undefined

\* String(value): a string is itself; a built-in function prints as its source text.
String(value) ==
  IF value.t = "function"
  THEN <<"f", "u", "n", "c", "t", "i", "o", "n", " ">> \o value.s
       \o <<"(", ")", " ", "{", " ", "[", "n", "a", "t", "i", "v", "e", " ",
            "c", "o", "d", "e", "]", " ", "}">>
  ELSE value.s

\* ------------------------------------------------------------------------
\* replace: one iteration of the inner while (true) loop
\* ------------------------------------------------------------------------
\* while (cursor >= 0 && result[cursor] === "\\") { backslashes++; cursor--; }
RECURSIVE CountBackslashes(_, _)
CountBackslashes(result, cursor) ==
  IF cursor >= 0 /\ At(result, cursor) = BS
  THEN 1 + CountBackslashes(result, cursor - 1)
  ELSE 0

\* variant: any run of backslashes escapes the placeholder
IsEscaped_AnyCount(esc, backslashes) == esc /\ backslashes > 0

\* if (escape && backslashes > 0 && backslashes % 2 === 1)
IsEscaped(esc, backslashes) == esc /\ backslashes > 0 /\ backslashes % 2 = 1

\* variant: one backslash is always removed
RemoveOne_Always(esc, backslashes) == 1

\* variant: one backslash is removed from an odd run whatever the escape option says
RemoveOne_WhenOdd(esc, backslashes) == IF backslashes % 2 = 1 THEN 1 ELSE 0

\* const removeOne = escape && backslashes % 2 === 1 ? 1 : 0;
RemoveOne(esc, backslashes) == IF esc /\ backslashes % 2 = 1 THEN 1 ELSE 0

\* searchFrom = start - backslashes + (backslashes - removeOne) + 2;
InvalidSearchFrom(start, backslashes, removeOne) ==
  start - backslashes + (backslashes - removeOne) + 2

\* variant: the value is tested for truthiness (if (value)), so an empty value
\* counts as missing
Replacement_Truthy(vars, parsed, full) ==
  LET value == Lookup(vars, parsed.key)
  IN IF value.t # "undefined" /\ String(value) # <<>>
     THEN [text |-> String(value), changed |-> TRUE]
     ELSE IF parsed.hasDefault /\ parsed.defaultValue # <<>>
          THEN [text |-> Unquote(parsed.defaultValue), changed |-> TRUE]
          ELSE [text |-> full, changed |-> FALSE]

\* variant: an empty default is used like any other default
Replacement_EmptyDefaultUsed(vars, parsed, full) ==
  LET value == Lookup(vars, parsed.key)
  IN IF value.t # "undefined"
     THEN [text |-> String(value), changed |-> TRUE]
     ELSE IF parsed.hasDefault
          THEN [text |-> Unquote(parsed.defaultValue), changed |-> TRUE]
          ELSE [text |-> full, changed |-> FALSE]

\* variant: a default put in place of the match is not recorded as a change
Replacement_DefaultNotRecorded(vars, parsed, full) ==
  LET value == Lookup(vars, parsed.key)
  IN IF value.t # "undefined"
     THEN [text |-> String(value), changed |-> TRUE]
     ELSE IF parsed.hasDefault /\ parsed.defaultValue # <<>>
          THEN [text |-> Unquote(parsed.defaultValue), changed |-> FALSE]
          ELSE [text |-> full, changed |-> FALSE]

\* variant: a value put in place of the match is not recorded as a change
Replacement_ValueNotRecorded(vars, parsed, full) ==
  LET value == Lookup(vars, parsed.key)
  IN IF value.t # "undefined"
     THEN [text |-> String(value), changed |-> FALSE]
     ELSE IF parsed.hasDefault /\ parsed.defaultValue # <<>>
          THEN [text |-> Unquote(parsed.defaultValue), changed |-> TRUE]
          ELSE [text |-> full, changed |-> FALSE]

\* value / defaultValue selection of the resolution path
Replacement(vars, parsed, full) ==
  LET value == Lookup(vars, parsed.key)
  IN IF value.t # "undefined"
     THEN [text |-> String(value), changed |-> TRUE]
     ELSE IF parsed.hasDefault /\ parsed.defaultValue # <<>>
          THEN [text |-> Unquote(parsed.defaultValue), changed |-> TRUE]
          ELSE [text |-> full, changed |-> FALSE]

\* variant: the backslashes are halved whatever the escape option says
FinalBackslashes_EscapeIgnored(esc, backslashes) == backslashes \div 2

\* let finalBackslashes = backslashes; if (escape && backslashes > 0) ...
FinalBackslashes(esc, backslashes) ==
  IF esc /\ backslashes > 0 THEN backslashes \div 2 ELSE backslashes

\* searchFrom after the escape path
EscapedSearchFrom(prefix, literal) == Len(prefix) + Len(literal)

\* variant: the scan resumes at the start of the replacement
ResolvedSearchFrom_AtReplacement(prefix, replacement) == Len(prefix)

\* searchFrom after the resolution path
ResolvedSearchFrom(prefix, replacement) == Len(prefix) + Len(replacement)

\* The locals of one iteration: match, parsed placeholder, backslash count, path.
Iteration(res, from, esc) ==
  LET m == FindNextPlaceholder(res, from)
      p == ParsePlaceholder(m.inner)
      b == CountBackslashes(res, m.start - 1)
  IN [match |-> m, parsed |-> p, backslashes |-> b,
      path |-> IF ~m.found THEN "none"
               ELSE IF IsEscaped(esc, b) THEN "escaped"
               ELSE IF ~IsValidVarName(p.key) THEN "invalid"
               ELSE "resolved"]

\* variant: the escape path records a change
EscapedPath_RecordsChange(res, it, chg) ==
  LET m == it.match
      b == it.backslashes
      remainingBackslashes == b \div 2
      prefix == Substring(res, 0, m.start - b) \o Repeat(BS, remainingBackslashes)
      literal == Substring(res, m.start, m.end + 1)
  IN [result |-> prefix \o literal \o SubstringFrom(res, m.end + 1),
      searchFrom |-> EscapedSearchFrom(prefix, literal),
      anyChange |-> TRUE,
      threw |-> RepeatThrows(remainingBackslashes)]

EscapedPath(res, it, chg) ==
  LET m == it.match
      b == it.backslashes
      remainingBackslashes == b \div 2
      prefix == Substring(res, 0, m.start - b) \o Repeat(BS, remainingBackslashes)
      literal == Substring(res, m.start, m.end + 1)
  IN [result |-> prefix \o literal \o SubstringFrom(res, m.end + 1),
      searchFrom |-> EscapedSearchFrom(prefix, literal),
      anyChange |-> chg,
      threw |-> RepeatThrows(remainingBackslashes)]

InvalidPath(res, it, esc) ==
  LET m == it.match
      b == it.backslashes
      removeOne == RemoveOne(esc, b)
  IN [result |-> Substring(res, 0, m.start - b) \o Repeat(BS, b - removeOne)
                 \o <<"$", "{">> \o SubstringFrom(res, m.start + 2),
      searchFrom |-> InvalidSearchFrom(m.start, b, removeOne),
      anyChange |-> TRUE,
      threw |-> RepeatThrows(b - removeOne)]

\* variant: the text after the match is taken from one character further on
ResolvedPath_SkipsOneAfter(res, it, vars, esc, chg) ==
  LET m == it.match
      b == it.backslashes
      r == Replacement(vars, it.parsed, m.full)
      finalBackslashes == FinalBackslashes(esc, b)
      prefix == Substring(res, 0, m.start - b) \o Repeat(BS, finalBackslashes)
  IN [result |-> prefix \o r.text \o SubstringFrom(res, m.end + 2),
      searchFrom |-> ResolvedSearchFrom(prefix, r.text),
      anyChange |-> chg \/ r.changed,
      threw |-> RepeatThrows(finalBackslashes)]

ResolvedPath(res, it, vars, esc, chg) ==
  LET m == it.match
      b == it.backslashes
      r == Replacement(vars, it.parsed, m.full)
      finalBackslashes == FinalBackslashes(esc, b)
      prefix == Substring(res, 0, m.start - b) \o Repeat(BS, finalBackslashes)
  IN [result |-> prefix \o r.text \o SubstringFrom(res, m.end + 1),
      searchFrom |-> ResolvedSearchFrom(prefix, r.text),
      anyChange |-> chg \/ r.changed,
      threw |-> RepeatThrows(finalBackslashes)]

\* The state after one iteration that found a match.
Iterate(res, from, chg, vars, esc) ==
  LET it == Iteration(res, from, esc)
  IN IF it.path = "escaped" THEN EscapedPath(res, it, chg)
     ELSE IF it.path = "invalid" THEN InvalidPath(res, it, esc)
     ELSE ResolvedPath(res, it, vars, esc, chg)

\* ------------------------------------------------------------------------
\* replace as a function (used by the replacer that traverse applies)
\* ------------------------------------------------------------------------
RECURSIVE RunPass(_, _, _, _, _)
RunPass(res, from, chg, vars, esc) ==
  IF ~FindNextPlaceholder(res, from).found
  THEN [result |-> res, anyChange |-> chg]
  ELSE LET n == Iterate(res, from, chg, vars, esc)
       IN RunPass(n.result, n.searchFrom, n.anyChange, vars, esc)

\* variant: the limit is tested before the counter is incremented
WithinPassLimit_TestedBeforeIncrement(npasses, limit) == ~(npasses - 1 > limit)

\* variant: no pass limit
WithinPassLimit_Unlimited(npasses, limit) == TRUE

\* passes++; if (passes > maxPasses) break;  -- npasses is the incremented counter
WithinPassLimit(npasses, limit) == ~(npasses > limit)

\* do { previous = result; passes++; if (passes > maxPasses) break; ...
\*      if (!anyChange) break; } while (result !== previous);
RECURSIVE ReplaceLoop(_, _, _, _, _)
ReplaceLoop(res, npasses, vars, esc, limit) ==
  IF ~WithinPassLimit(npasses + 1, limit) THEN res
  ELSE LET p == RunPass(res, 0, FALSE, vars, esc)
       IN IF ~p.anyChange THEN p.result
          ELSE IF p.result # res THEN ReplaceLoop(p.result, npasses + 1, vars, esc, limit)
          ELSE p.result

Replace(text, vars, esc, limit) == ReplaceLoop(text, 0, vars, esc, limit)

\* ------------------------------------------------------------------------
\* Explored inputs of replace
\* ------------------------------------------------------------------------
Open == <<"$", "{">>
Close == <<"}">>

\* `${key}` (hasDefault = FALSE) or `${key:default}`
Placeholder(key, hasDefault, default) ==
  Open \o key \o (IF hasDefault THEN <<":">> \o default ELSE <<>>) \o Close

Plain(key) == Placeholder(key, FALSE, <<>>)
WithDefault(key, default) == Placeholder(key, TRUE, default)

\* valid names (the last one is inherited by every plain object) and invalid ones
ValidKeys == {<<"A">>, <<"B">>, <<"a">>, toString}
InvalidKeys == {<<>>, <<"A", "-">>}
Keys == ValidKeys \cup InvalidKeys

\* default texts: absent is modelled by hasDefault = FALSE
DefaultTexts ==
  { <<>>, <<"d">>,
    <<DQ, "d", DQ>>, <<SQ, "d", SQ>>, <<DQ, "d", SQ>>, <<SQ, "d", DQ>>,
    <<DQ, "d">>, <<"d", SQ>>, <<DQ>>, <<SQ, SQ>>, <<DQ, SQ, "d", SQ, DQ>>,
    <<"d", ":", "d">>, Plain(<<"B">>), WithDefault(<<"B">>, <<"d">>) }

\* the default texts tried with every key
CommonDefaults == {<<>>, <<"d">>, <<DQ, "d", DQ>>, Plain(<<"B">>)}

\* every key with the common defaults; the quoting variety on a key no map defines
Placeholders ==
  {Plain(k) : k \in Keys}
  \cup {WithDefault(k, d) : k \in Keys, d \in CommonDefaults}
  \cup {WithDefault(<<"a">>, d) : d \in DefaultTexts}

Backslashes(n) == Repeat(BS, n)

\* one placeholder behind 0..MaxBackslashes backslashes, alone or inside text
SingleInputs ==
  {Backslashes(n) \o ph : n \in 0..MaxBackslashes, ph \in Placeholders}
  \cup {<<"t">> \o Backslashes(n) \o ph \o <<"t">> :
          n \in 0..MaxBackslashes,
          ph \in {Plain(<<"A">>), WithDefault(<<"A">>, <<"d">>), Plain(<<"A", "-">>)}}

\* two placeholders, adjacent or separated by text
FirstSegments ==
  {Backslashes(n) \o ph :
     n \in 0..MaxBackslashes,
     ph \in {Plain(<<"A">>), WithDefault(<<"B">>, <<"d">>), Plain(<<"A", "-">>),
             WithDefault(<<"A">>, Plain(<<"B">>)),
             WithDefault(<<"A", "-">>, Plain(<<"B">>))}}

SecondSegments ==
  {Backslashes(n) \o ph :
     n \in 0..1,
     ph \in {Plain(<<"B">>), WithDefault(<<"a">>, <<"d">>), Plain(<<"A", "-">>)}}

PairInputs ==
  {s1 \o sep \o s2 : s1 \in FirstSegments, sep \in {<<>>, <<"t">>}, s2 \in SecondSegments}

\* chains of nested defaults: `${L1:${L2:...${Ln:v}}}` and the head `${L1}` of a
\* chain of variable values L1 = `${L2}`, ..., Ln = v
LevelDigits == <<"1", "2", "3", "4", "5", "6", "7", "8", "9">>
Level(i) == <<"L", LevelDigits[i]>>
FinalValue == <<"v">>

RECURSIVE DefaultChain(_, _)
DefaultChain(i, n) ==
  IF i > n THEN FinalValue ELSE WithDefault(Level(i), DefaultChain(i + 1, n))

\* the variable map L1 = `${L2}`, ..., Ln = v, next to B = y
ValueChain(n) ==
  [k \in {Level(i) : i \in 1..n} |->
     LET i == CHOOSE j \in 1..n : Level(j) = k
     IN IF i = n THEN FinalValue ELSE Plain(Level(i + 1))]
  @@ (<<"B">> :> <<"y">>)

ChainInputs ==
  {DefaultChain(i, MaxChain) : i \in 1..MaxChain} \cup {Plain(Level(i)) : i \in 1..MaxChain}

\* text without a complete placeholder, and unbalanced braces
MalformedInputs ==
  { <<>>, <<"t">>, <<"$">>, <<"$", "{">>, <<"$", "{", "A">>, <<"A", "}">>,
    <<"$", "t", "{", "A", "}">>, <<"{", "A", "}">>, <<BS>>, <<BS, "t">>,
    Open \o <<"{", "A", ":", "d", "}", "}">>,
    Open \o <<"A", ":", "{">> \o Plain(<<"A">>),
    Open \o <<"A">> \o <<"t">> \o Plain(<<"A">>),
    Plain(<<"A">>) \o Open \o <<"B">> \o Plain(<<"A">>) }

\* k placeholders next to each other or separated by text: `${A}${B:d}t${A}${B:d}t`
RECURSIVE Independent(_)
Independent(k) ==
  IF k = 0 THEN <<>>
  ELSE Independent(k - 1)
       \o (IF k % 2 = 1 THEN Plain(<<"A">>) ELSE WithDefault(<<"B">>, <<"d">>) \o <<"t">>)

IndependentInputs == {Independent(k) : k \in 1..MaxPlaceholders}

Inputs ==
  SingleInputs \cup PairInputs \cup ChainInputs \cup MalformedInputs
  \cup IndependentInputs

NoVariables == [k \in {} |-> <<>>]

VariableMaps ==
  { NoVariables,
    <<"A">> :> <<>>,
    (<<"A">> :> <<"x">>) @@ (<<"B">> :> <<"y">>),
    (<<"A">> :> Plain(<<"B">>)) @@ (<<"B">> :> <<"y">>),
    (<<"A">> :> Plain(<<"B">>)) @@ (<<"B">> :> Plain(<<"A">>)),
    <<"A">> :> WithDefault(<<"A">>, <<"d">>),
    (<<"A">> :> <<"x", BS>>) @@ (<<"B">> :> <<"y">>),
    ValueChain(MaxChain) }

\* options.maxPasses: 0..MaxPassesBound, or omitted (MAX_INTERPOLATION_PASSES)
PassLimits == (0..MaxPassesBound) \cup {MAX_INTERPOLATION_PASSES}

\* ------------------------------------------------------------------------
\* State
\* ------------------------------------------------------------------------
VARIABLES
  content,     \* replace: the argument string
  variables,   \* the variable map
  escape,      \* options.escape
  maxPasses,   \* options.maxPasses
  result,      \* replace: the buffer
  previous,    \* replace: the buffer at the start of the current pass
  passes,      \* replace: pass counter
  searchFrom,  \* replace: cursor of the current pass
  anyChange,   \* replace: change flag of the current pass
  last,        \* replace: locals of the latest iteration of the inner loop
  threw,       \* replace: a RangeError was raised
  pc,          \* replace: position in the function
  tree,        \* interpolate: the argument (a string value or a container reference)
  heap,        \* the containers (arrays and plain objects) by identity
  seen,        \* traverse: the WeakMap from visited containers to their copies
  stack,       \* traverse: the active calls on containers, innermost last
  returned,    \* interpolate: the value returned
  tpc,         \* interpolate: position
  match,       \* the value findNextPlaceholder returned
  parsed,      \* the value parsePlaceholder returned
  valid,       \* the value isValidVarName returned
  ppc          \* position in the find / parse / validate sequence

rvars == <<content, result, previous, passes, searchFrom, anyChange, last, threw, pc>>
ovars == <<variables, escape, maxPasses>>
tvars == <<tree, heap, seen, stack, returned, tpc>>
pvars == <<match, parsed, valid, ppc>>

vars == <<content, variables, escape, maxPasses, result, previous, passes,
          searchFrom, anyChange, last, threw, pc,
          tree, heap, seen, stack, returned, tpc,
          match, parsed, valid, ppc>>

\* ------------------------------------------------------------------------
\* Values and containers
\* ------------------------------------------------------------------------
StringValue(s) == [t |-> "string", s |-> s, id |-> 0]
NumberValue == [t |-> "number", s |-> <<>>, id |-> 0]
BooleanValue == [t |-> "boolean", s |-> <<>>, id |-> 0]
NullValue == [t |-> "null", s |-> <<>>, id |-> 0]
UndefinedValue == [t |-> "undefined", s |-> <<>>, id |-> 0]
Ref(id) == [t |-> "object", s |-> <<>>, id |-> id]

\* [[Prototype]] of a container: the built-in one (Object.prototype or
\* Array.prototype), null, or the identity of another container
BuiltinPrototype == 0
NullPrototype == -1

\* a container: an array (keys unused) or an object with own enumerable keys in
\* insertion order; array and object literals have the built-in prototype
Container(kind, keys, vals) ==
  [kind |-> kind, keys |-> keys, vals |-> vals, proto |-> BuiltinPrototype]

NoFunction == [k \in {} |-> 0]

NoParse == [key |-> <<>>, hasDefault |-> FALSE, defaultValue |-> <<>>]

\* the find / parse / validate variables when no such call is explored
Unused ==
  /\ match = NoMatch
  /\ parsed = NoParse
  /\ valid = FALSE
  /\ ppc = "idle"

NoIteration ==
  [path |-> "none", before |-> <<>>, from |-> 0, start |-> -1, end |-> -1,
   full |-> <<>>, key |-> <<>>, hasDefault |-> FALSE, defaultValue |-> <<>>,
   backslashes |-> 0, changeBefore |-> FALSE, pass |-> 0]

Init ==
  /\ content \in Inputs
  /\ variables \in VariableMaps
  /\ escape \in BOOLEAN
  /\ maxPasses \in PassLimits
  /\ result = content
  /\ previous = <<>>
  /\ passes = 0
  /\ searchFrom = 0
  /\ anyChange = FALSE
  /\ last = NoIteration
  /\ threw = FALSE
  /\ pc = "do"
  /\ tree = UndefinedValue
  /\ heap = <<>>
  /\ seen = NoFunction
  /\ stack = <<>>
  /\ returned = UndefinedValue
  /\ tpc = "idle"
  /\ Unused

\* do { previous = result; passes++; if (passes > maxPasses) break;
BeginPass ==
  /\ pc = "do"
  /\ WithinPassLimit(passes + 1, maxPasses)
  /\ previous' = result
  /\ passes' = passes + 1
  /\ searchFrom' = 0
  /\ anyChange' = FALSE
  /\ pc' = "scan"
  /\ UNCHANGED <<content, result, last, threw>>
  /\ UNCHANGED <<ovars, tvars, pvars>>

PassLimitReached ==
  /\ pc = "do"
  /\ ~WithinPassLimit(passes + 1, maxPasses)
  /\ previous' = result
  /\ passes' = passes + 1
  /\ pc' = "return"
  /\ UNCHANGED <<content, result, searchFrom, anyChange, last, threw>>
  /\ UNCHANGED <<ovars, tvars, pvars>>

\* one iteration of while (true) that takes the given path
Scan(path) ==
  /\ pc = "scan"
  /\ LET it == Iteration(result, searchFrom, escape)
         n == Iterate(result, searchFrom, anyChange, variables, escape)
     IN /\ it.path = path
        /\ result' = n.result
        /\ searchFrom' = n.searchFrom
        /\ anyChange' = n.anyChange
        /\ threw' = (threw \/ n.threw)
        /\ last' = [path |-> path, before |-> result, from |-> searchFrom,
                    start |-> it.match.start, end |-> it.match.end,
                    full |-> it.match.full, key |-> it.parsed.key,
                    hasDefault |-> it.parsed.hasDefault,
                    defaultValue |-> it.parsed.defaultValue,
                    backslashes |-> it.backslashes, changeBefore |-> anyChange,
                    pass |-> passes]
  /\ UNCHANGED <<content, previous, passes, pc>>
  /\ UNCHANGED <<ovars, tvars, pvars>>

ScanEscaped == Scan("escaped")
ScanInvalid == Scan("invalid")
ScanResolved == Scan("resolved")

\* if (!match) break;
ScanDone ==
  /\ pc = "scan"
  /\ ~FindNextPlaceholder(result, searchFrom).found
  /\ pc' = "while"
  /\ UNCHANGED <<content, result, previous, passes, searchFrom, anyChange, last, threw>>
  /\ UNCHANGED <<ovars, tvars, pvars>>

\* if (!anyChange) break; } while (result !== previous);
EndPass ==
  /\ pc = "while"
  /\ pc' = IF anyChange /\ result # previous THEN "do" ELSE "return"
  /\ UNCHANGED <<content, result, previous, passes, searchFrom, anyChange, last, threw>>
  /\ UNCHANGED <<ovars, tvars, pvars>>

Next ==
  \/ BeginPass
  \/ PassLimitReached
  \/ ScanEscaped
  \/ ScanInvalid
  \/ ScanResolved
  \/ ScanDone
  \/ EndPass

Spec == Init /\ [][Next]_vars

\* the value replace returns
Returned == pc = "return"

\* ------------------------------------------------------------------------
\* Explored inputs of interpolate
\* ------------------------------------------------------------------------
StringLeaf == StringValue(WithDefault(<<"A">>, <<"d">>))
Leaves == {StringLeaf, NumberValue, BooleanValue, NullValue}

\* own keys of the explored objects, by position; the first reads as a placeholder
KeyNames == <<Plain(<<"A">>), <<"k">>, <<"j">>, <<"i">>>>

\* the same with an own key named __proto__ (as JSON.parse creates it)
ProtoKey == <<"_", "_", "p", "r", "o", "t", "o", "_", "_">>
ProtoKeyNames == <<Plain(<<"A">>), ProtoKey, <<"j">>, <<"i">>>>
KeyNameChoices == {KeyNames, ProtoKeyNames}

\* a prototype object with one enumerable property, for inputs built with
\* Object.create(parent)
InheritedKey == <<"i", "n", "h">>
InheritedLeaf == StringValue(WithDefault(<<"B">>, <<"p">>))
ParentPrototype == Container("object", <<InheritedKey>>, <<InheritedLeaf>>)

SlotValues(n) == Leaves \cup {Ref(i) : i \in 1..n}

\* the lengths of n containers that hold at most MaxSlots items between them
RECURSIVE Total(_, _)
Total(lens, n) == IF n = 0 THEN 0 ELSE lens[n] + Total(lens, n - 1)
Lengths(n) == {lens \in [1..n -> 0..MaxSlots] : Total(lens, n) <= MaxSlots}

\* the first container is an array or an object; the others alternate
KindOf(i, first) == IF i = 1 THEN first ELSE IF i % 2 = 0 THEN "object" ELSE "array"

InputContainer(kind, names, vals) ==
  Container(kind, IF kind = "object" THEN SubSeq(names, 1, Len(vals)) ELSE <<>>, vals)

RefsOf(c) == {c.vals[i].id : i \in {j \in 1..Len(c.vals) : c.vals[j].t = "object"}}

RECURSIVE ReachableFrom(_, _)
ReachableFrom(h, ids) ==
  LET more == ids \cup UNION {RefsOf(h[c]) : c \in ids}
  IN IF more = ids THEN ids ELSE ReachableFrom(h, more)

\* object graphs of n containers, all reachable from the first, cycles included
Shapes(n, lens) ==
  {[i \in 1..n |->
      InputContainer(KindOf(i, first), names,
                     [j \in 1..lens[i] |-> items[Total(lens, i - 1) + j]])] :
     first \in {"array", "object"}, names \in KeyNameChoices,
     items \in [1..Total(lens, n) -> SlotValues(n)]}
Graphs(n) ==
  UNION {{h \in Shapes(n, lens) : ReachableFrom(h, {1}) = 1..n} : lens \in Lengths(n)}

\* the graph whose root object was created with Object.create(parent)
WithParent(h) ==
  Append([h EXCEPT ![1].proto = Len(h) + 1], ParentPrototype)
InputGraphs ==
  LET plain == UNION {Graphs(n) : n \in 1..MaxObjects}
  IN plain \cup {WithParent(h) : h \in {g \in plain : g[1].kind = "object"}}

\* ------------------------------------------------------------------------
\* interpolate / traverse
\* ------------------------------------------------------------------------
\* const replacer = (str: string) => replace(str, variables, options);
Replacer(str) == Replace(str, variables, escape, maxPasses)

\* variant: traverse without the seen map
SeenHas_Never(map, id) == FALSE

\* seen.has(value)
SeenHas(map, id) == id \in DOMAIN map

\* variant: the source container is reused as the output
NewContainer_Alias(h, src) == src

\* const out = [] / const out = {}: a fresh container, with a new identity
NewContainer(h, src) == Len(h) + 1

\* the prototype chain of container id, nearest first (containers only)
RECURSIVE ProtoChain(_, _)
ProtoChain(h, id) ==
  IF id \notin DOMAIN h THEN <<>> ELSE <<id>> \o ProtoChain(h, h[id].proto)

\* the position of own key k in container c, 0 when c has no such own key
OwnIndex(c, k) ==
  IF \E i \in 1..Len(c.keys) : c.keys[i] = k
  THEN CHOOSE i \in 1..Len(c.keys) : c.keys[i] = k
  ELSE 0

\* value[k]: the own property, else the nearest one on the prototype chain
RECURSIVE Get(_, _, _)
Get(h, id, k) ==
  IF id \notin DOMAIN h THEN UndefinedValue
  ELSE IF OwnIndex(h[id], k) # 0 THEN h[id].vals[OwnIndex(h[id], k)]
  ELSE Get(h, h[id].proto, k)

\* the enumerable keys a for...in loop visits: own first, then inherited ones
RECURSIVE EnumerableKeys(_, _)
EnumerableKeys(h, id) ==
  IF id \notin DOMAIN h THEN <<>>
  ELSE LET up == EnumerableKeys(h, h[id].proto)
       IN h[id].keys \o SelectSeq(up, LAMBDA k : OwnIndex(h[id], k) = 0)

\* variant: the keys are enumerated with for (const k in value)
ObjectKeys_ForIn(h, id) == EnumerableKeys(h, id)

\* Object.keys(value): the own enumerable keys, in order
ObjectKeys(h, id) == h[id].keys

\* the number of items the loop over container id visits
ItemCount(h, id) ==
  IF h[id].kind = "array" THEN Len(h[id].vals) ELSE Len(ObjectKeys(h, id))

\* the i-th item visited: an array element, or value[k] for the i-th key
ItemAt(h, id, i) ==
  IF h[id].kind = "array" THEN h[id].vals[i] ELSE Get(h, id, ObjectKeys(h, id)[i])

\* out[k] = v with k = "__proto__" on an object that has no such own property
\* runs the setter inherited from Object.prototype: v becomes the prototype when
\* it is an object or null, and the assignment does nothing otherwise
SetsPrototype(c, k) == c.kind = "object" /\ k = ProtoKey /\ c.proto # NullPrototype

NewPrototype(c, v) ==
  IF v.t = "object" THEN v.id ELSE IF v.t = "null" THEN NullPrototype ELSE c.proto

\* the setter throws TypeError (Cyclic __proto__ value) when the object is on the
\* prototype chain of its new prototype
StoreThrows(h, out, k, v) ==
  /\ SetsPrototype(h[out], k)
  /\ v.t = "object"
  /\ v.id # h[out].proto
  /\ \E i \in 1..Len(ProtoChain(h, v.id)) : ProtoChain(h, v.id)[i] = out

\* out.push(v) for an array, out[k] = v for an object
Store(c, k, v) ==
  IF SetsPrototype(c, k) THEN [c EXCEPT !.proto = NewPrototype(c, v)]
  ELSE [c EXCEPT !.keys = IF c.kind = "object" THEN Append(c.keys, k) ELSE c.keys,
                 !.vals = Append(c.vals, v)]

\* variant: the keys are interpolated too
OutKey_Interpolated(h, id, i) ==
  IF h[id].kind = "object" THEN Replacer(ObjectKeys(h, id)[i]) ELSE <<>>

\* the key under which the i-th item visited in container id is stored
OutKey(h, id, i) == IF h[id].kind = "object" THEN ObjectKeys(h, id)[i] ELSE <<>>

InitT ==
  /\ content = <<>>
  /\ variables = (<<"A">> :> <<"x">>)
  /\ escape = TRUE
  /\ maxPasses = MAX_INTERPOLATION_PASSES
  /\ result = <<>>
  /\ previous = <<>>
  /\ passes = 0
  /\ searchFrom = 0
  /\ anyChange = FALSE
  /\ last = NoIteration
  /\ threw = FALSE
  /\ pc = "idle"
  /\ \/ /\ tree = StringLeaf
        /\ heap = <<>>
     \/ /\ tree = Ref(1)
        /\ heap \in InputGraphs
  /\ seen = NoFunction
  /\ stack = <<>>
  /\ returned = UndefinedValue
  /\ tpc = "call"
  /\ Unused

\* traverse(content): if (typeof value === "string") return replacer(value);
InterpolateString ==
  /\ tpc = "call"
  /\ tree.t = "string"
  /\ returned' = StringValue(Replacer(tree.s))
  /\ tpc' = "done"
  /\ UNCHANGED <<pvars, rvars, ovars, tree, heap, seen, stack>>

\* allocate the copy of container src, record it in seen, and enter its loop
Enter(src) ==
  LET out == NewContainer(heap, src)
  IN /\ heap' = [i \in DOMAIN heap \cup {out} |->
                   IF i = out THEN Container(heap[src].kind, <<>>, <<>>) ELSE heap[i]]
     /\ seen' = [c \in DOMAIN seen \cup {src} |-> IF c = src THEN out ELSE seen[c]]
     /\ stack' = Append(stack, [src |-> src, out |-> out, i |-> 1])

\* traverse(content) on an array or an object
InterpolateContainer ==
  /\ tpc = "call"
  /\ tree.t = "object"
  /\ Enter(tree.id)
  /\ tpc' = "loop"
  /\ UNCHANGED <<pvars, rvars, ovars, tree, returned>>

Top == stack[Len(stack)]
Item == ItemAt(heap, Top.src, Top.i)
HasItem == tpc = "loop" /\ stack # <<>> /\ Top.i <= ItemCount(heap, Top.src)

\* the call c stores v for its current item and moves to the next item, the calls
\* in rest staying active; a TypeError raised by the store unwinds every call
StoreInto(rest, c, v) ==
  LET k == OutKey(heap, c.src, c.i)
  IN IF StoreThrows(heap, c.out, k, v)
     THEN /\ tpc' = "threw"
          /\ stack' = <<>>
          /\ UNCHANGED heap
     ELSE /\ tpc' = "loop"
          /\ heap' = [heap EXCEPT ![c.out] = Store(@, k, v)]
          /\ stack' = Append(rest, [c EXCEPT !.i = @ + 1])

\* the innermost call stores v
StoreItem(v) == StoreInto(SubSeq(stack, 1, Len(stack) - 1), Top, v)

\* item is a string: out.push(replacer(item))
VisitString ==
  /\ HasItem
  /\ Item.t = "string"
  /\ StoreItem(StringValue(Replacer(Item.s)))
  /\ UNCHANGED <<pvars, rvars, ovars, tree, seen, returned>>

\* item is neither a string nor an object (null included): return value;
VisitScalar ==
  /\ HasItem
  /\ Item.t \notin {"string", "object"}
  /\ StoreItem(Item)
  /\ UNCHANGED <<pvars, rvars, ovars, tree, seen, returned>>

\* item is a container already in seen: return seen.get(value);
VisitSeen ==
  /\ HasItem
  /\ Item.t = "object"
  /\ SeenHas(seen, Item.id)
  /\ StoreItem(Ref(seen[Item.id]))
  /\ UNCHANGED <<pvars, rvars, ovars, tree, seen, returned>>

\* item is a container not yet seen: recurse into it
VisitNew ==
  /\ HasItem
  /\ Item.t = "object"
  /\ ~SeenHas(seen, Item.id)
  /\ Enter(Item.id)
  /\ UNCHANGED <<pvars, rvars, ovars, tree, returned, tpc>>

\* return out; the caller stores the copy, or interpolate returns it
Return ==
  /\ tpc = "loop"
  /\ stack # <<>>
  /\ Top.i > ItemCount(heap, Top.src)
  /\ IF Len(stack) = 1
     THEN /\ returned' = Ref(Top.out)
          /\ tpc' = "done"
          /\ stack' = <<>>
          /\ UNCHANGED heap
     ELSE /\ StoreInto(SubSeq(stack, 1, Len(stack) - 2), stack[Len(stack) - 1],
                       Ref(Top.out))
          /\ UNCHANGED returned
  /\ UNCHANGED <<pvars, rvars, ovars, tree, seen>>

NextT ==
  \/ InterpolateString
  \/ InterpolateContainer
  \/ VisitString
  \/ VisitScalar
  \/ VisitSeen
  \/ VisitNew
  \/ Return

SpecT == InitT /\ [][NextT]_vars

\* ------------------------------------------------------------------------
\* findNextPlaceholder, parsePlaceholder and isValidVarName called directly
\* ------------------------------------------------------------------------
\* the examples of the documentation comment of findNextPlaceholder
DocSimple ==
  <<"H", "e", "l", "l", "o", " ", "$", "{", "N", "A", "M", "E", ":", "G",
    "u", "e", "s", "t", "}", "!">>
DocNested ==
  <<"$", "{", "G", "R", "E", "E", "T", "I", "N", "G", ":", "H", "e", "l",
    "l", "o", " ", "$", "{", "U", "S", "E", "R", ":", "G", "u", "e", "s",
    "t", "}", "}">>
DocNone ==
  <<"J", "u", "s", "t", " ", "a", " ", "r", "e", "g", "u", "l", "a", "r",
    " ", "s", "t", "r", "i", "n", "g">>
DocFromIndex ==
  <<"$", "{", "A", ":", "1", "}", " ", "a", "n", "d", " ", "$", "{", "B",
    ":", "2", "}">>
DocExamples == {DocSimple, DocNested, DocNone, DocFromIndex}

\* names of every kind inside a placeholder
NameExamples ==
  { <<>>, <<"A">>, <<"a">>, <<"z", "Z">>, <<"_">>, <<"9">>, <<"A", "_", "1">>,
    <<"a", "-", "b">>, <<"A", "@">>, <<"A", " ">>, <<" ", "A">>, <<"A", ".", "B">>,
    <<"A", "\n">>, <<"\n">>, <<BS, "A">>, <<DQ, "A", DQ>>, <<"$", "A">>,
    <<LongS>>, <<DotlessI>>, <<KelvinSign>>, <<EAcute>>, <<"A", EAcute>>,
    <<"{", "V", "A", "R">>, toString }

\* default parts: colons, quotes, braces and backslashes after the first colon
DefaultExamples ==
  { <<>>, <<"d">>, <<":">>, <<"a", ":", "b">>, <<DQ, "a", ":", "b", DQ>>,
    <<"{", DQ, "k", DQ, ":", "1", "}">>, <<BS, ":">>, Plain(<<"B">>),
    WithDefault(<<"B">>, <<"d">>) }

\* placeholders whose names are not valid
RejectedExamples ==
  { Plain(<<>>),
    WithDefault(<<>>, <<"f", "o", "o">>),
    Open \o <<"{", "V", "A", "R", ":", "d", "e", "f", "a", "u", "l", "t", "}">> \o Close,
    Plain(<<"a", "-", "b">>),
    Plain(<<"A", "@">>) }

\* the strings searched: the documented examples, one placeholder of every name
\* with and without a default, inside text, and malformed text
ScannedStrings ==
  DocExamples
  \cup {Plain(k) : k \in NameExamples \ {<<"{", "V", "A", "R">>}}
  \cup {WithDefault(k, d) :
          k \in {<<>>, <<"A">>, <<DQ, "A", DQ>>, <<"A", BS>>}, d \in DefaultExamples}
  \cup RejectedExamples
  \cup {<<"t", "$">> \o Plain(<<"A">>) \o <<"}", "$">> \o WithDefault(<<"B">>, Plain(<<"A">>))}
  \cup {Plain(<<"A">>) \o Open \o <<"B">>, Open \o <<"B">> \o Plain(<<"A">>)}
  \cup MalformedInputs

\* findNextPlaceholder(str, fromIndex), any index of the string or its length
InitP ==
  /\ content \in ScannedStrings
  /\ searchFrom \in 0..Len(content)
  /\ variables = NoVariables
  /\ escape = TRUE
  /\ maxPasses = MAX_INTERPOLATION_PASSES
  /\ result = <<>>
  /\ previous = <<>>
  /\ passes = 0
  /\ anyChange = FALSE
  /\ last = NoIteration
  /\ threw = FALSE
  /\ pc = "idle"
  /\ tree = UndefinedValue
  /\ heap = <<>>
  /\ seen = NoFunction
  /\ stack = <<>>
  /\ returned = UndefinedValue
  /\ tpc = "idle"
  /\ match = NoMatch
  /\ parsed = NoParse
  /\ valid = FALSE
  /\ ppc = "find"

\* const match = findNextPlaceholder(result, searchFrom); if (!match) break;
FindCall ==
  /\ ppc = "find"
  /\ match' = FindNextPlaceholder(content, searchFrom)
  /\ ppc' = IF match'.found THEN "parse" ELSE "end"
  /\ UNCHANGED <<parsed, valid, rvars, ovars, tvars>>

\* const { key, defaultValue } = parsePlaceholder(inner);
ParseCall ==
  /\ ppc = "parse"
  /\ parsed' = ParsePlaceholder(match.inner)
  /\ ppc' = "validate"
  /\ UNCHANGED <<match, valid, rvars, ovars, tvars>>

\* isValidVarName(key)
ValidateCall ==
  /\ ppc = "validate"
  /\ valid' = IsValidVarName(parsed.key)
  /\ ppc' = "end"
  /\ UNCHANGED <<match, parsed, rvars, ovars, tvars>>

NextP ==
  \/ FindCall
  \/ ParseCall
  \/ ValidateCall

SpecP == InitP /\ [][NextP]_vars

\* ------------------------------------------------------------------------
\* Vocabulary of the properties
\* ------------------------------------------------------------------------
\* sub occurs in s as a contiguous run of characters
Contains(s, sub) ==
  \E i \in 0..(Len(s) - Len(sub)) : SubSeq(s, i + 1, i + Len(sub)) = sub

\* the first placeholder of the input and the backslashes written before it
FirstMatch == FindNextPlaceholder(content, 0)
FirstBackslashes == CountBackslashes(content, FirstMatch.start - 1)
FirstParsed == ParsePlaceholder(FirstMatch.inner)

\* the latest iteration: the text before the backslash run, and after the match
Before == Substring(last.before, 0, last.start - last.backslashes)
After == SubstringFrom(last.before, last.end + 1)

\* the latest iteration put text r in place of the match (behind k kept backslashes)
EmittedIs(r) ==
  \E k \in 0..last.backslashes : result = Before \o Backslashes(k) \o r \o After

\* the buffer and the change flag are those the latest iteration left, on the path
Iterated(path) == last.path = path /\ last.pass = passes

IsQuote(ch) == ch \in {DQ, SQ}

\* ------------------------------------------------------------------------
\* C1
\* ------------------------------------------------------------------------
\* C1: with escape enabled and maxPasses >= 1, a placeholder written behind an odd
\* number n of backslashes is never substituted: the returned string contains its
\* literal `${...}` text behind floor(n/2) backslashes, whatever else the string
\* contains and however many passes run.
C1_EscapedStaysLiteral ==
  (Returned /\ escape /\ maxPasses >= 1 /\ FirstMatch.found /\ FirstBackslashes % 2 = 1)
    => Contains(result, Backslashes(FirstBackslashes \div 2) \o FirstMatch.full)

\* ------------------------------------------------------------------------
\* C2
\* ------------------------------------------------------------------------
\* C2: a placeholder whose key is not a valid name appears in the output with its
\* whole span from `${` to the matching `}` verbatim, placeholders nested in its
\* default text included.
C2_InvalidSpanVerbatim ==
  (Returned /\ maxPasses >= 1 /\ FirstMatch.found /\ ~IsValidVarName(FirstParsed.key))
    => Contains(result, FirstMatch.full)

\* ------------------------------------------------------------------------
\* C3
\* ------------------------------------------------------------------------
\* C3: an iteration that resolves a valid-name placeholder with no backslash before
\* it, whose key has an entry in the variable map, puts exactly the entry's value
\* (the empty string included) in place of the match and records a change, whatever
\* the default text; a key that differs from an entry only by case is not resolved
\* by that entry.
C3_DefinedValueSubstituted ==
  (Iterated("resolved") /\ last.backslashes = 0)
    => /\ last.key \in DOMAIN variables
            => /\ result = Before \o variables[last.key] \o After
               /\ anyChange
       /\ (last.key = <<"a">> /\ ~last.hasDefault) => result = last.before

C3_Witness ==
  /\ Iterated("resolved")
  /\ last.backslashes = 0
  /\ last.key \in DOMAIN variables
  /\ variables[last.key] = <<>>
  /\ last.hasDefault
  /\ last.defaultValue = <<DQ, "d", DQ>>

C6_ZeroPassesIdentity ==
  (maxPasses = 0)
    => /\ result = content
       /\ last = NoIteration
       /\ pc \in {"do", "return"}

C6_Witness ==
  /\ maxPasses = 0
  /\ Returned
  /\ FirstMatch.found
  /\ FirstBackslashes > 0
  /\ FirstParsed.key \in DOMAIN variables

\* ------------------------------------------------------------------------
\* C7
\* ------------------------------------------------------------------------
\* the chain input that starts at level i has MaxChain - i + 1 levels
ChainLevels(i) == MaxChain - i + 1

\* C7: for a chain of N nested defaults on undefined keys, and for a chain of N
\* variables whose values are the placeholder of the next level, replace with
\* maxPasses = k resolves min(k, N) levels: for k < N it returns the placeholder of
\* level k + 1, for k >= N the final value, which holds no `${`.
C7_ChainResolvesMinLevels ==
  Returned =>
    \A i \in 1..MaxChain :
      LET n == ChainLevels(i)
          k == Min(maxPasses, n)
      IN /\ (content = DefaultChain(i, MaxChain)
               /\ \A j \in 1..MaxChain : Level(j) \notin DOMAIN variables)
              => /\ result = DefaultChain(i + k, MaxChain)
                 /\ (maxPasses >= n) => (result = FinalValue /\ ~Contains(result, Open))
         /\ (content = Plain(Level(i)) /\ variables = ValueChain(MaxChain))
              => /\ (maxPasses < n) => result = Plain(Level(i + k))
                 /\ (maxPasses >= n) => (result = FinalValue /\ ~Contains(result, Open))

C7_Witness ==
  /\ Returned
  /\ content = DefaultChain(1, MaxChain)
  /\ maxPasses = 2
  /\ result = DefaultChain(3, MaxChain)
  /\ passes = 3

\* ------------------------------------------------------------------------
\* Vocabulary of the properties of interpolate
\* ------------------------------------------------------------------------
\* the containers of the argument: those reachable from it
InputIds == IF tree.t = "object" THEN ReachableFrom(heap, {tree.id}) ELSE {}

\* the prototypes of the input's containers that are containers themselves
PrototypeIds == ({heap[c].proto : c \in InputIds} \cap DOMAIN heap) \ InputIds

\* the containers the caller passed in, prototypes included
Given == InputIds \cup PrototypeIds

\* the containers built by traverse
Copies == DOMAIN heap \ Given

Done == tpc = "done"
Threw == tpc = "threw"

\* ------------------------------------------------------------------------
\* C8
\* ------------------------------------------------------------------------
\* C8: no step of interpolate changes a container of the input or the variable map,
\* and no container of the output is a container of the input: the copies recorded
\* in seen, the containers referenced from copies and the returned container are all
\* distinct from every input container.
C8_InputUntouchedAndUnshared ==
  [][ /\ \A c \in Given : c \in DOMAIN heap' /\ heap'[c] = heap[c]
      /\ variables' = variables
      /\ \A c \in DOMAIN seen' : seen'[c] \notin Given
      /\ \A o \in DOMAIN heap' \ Given :
           /\ RefsOf(heap'[o]) \cap Given = {}
           /\ heap'[o].proto \notin Given
      /\ returned'.t = "object" => returned'.id \notin Given ]_vars

C8_Witness ==
  /\ Done
  /\ returned.t = "object"
  /\ Cardinality(InputIds) = 2
  /\ heap[1].vals = <<StringLeaf, Ref(2)>>
  /\ heap[2].vals = <<Ref(1)>>
  /\ heap[returned.id].vals = <<StringValue(<<"x">>), Ref(seen[2])>>

\* ------------------------------------------------------------------------
\* C9
\* ------------------------------------------------------------------------
\* every container is entered at most once and has at most one copy
C9_VisitedOnce ==
  /\ Cardinality(Copies) = Cardinality(DOMAIN seen)
  /\ \A c, d \in DOMAIN seen : seen[c] = seen[d] => c = d
  /\ \A i, j \in 1..Len(stack) : stack[i].src = stack[j].src => i = j

\* the output has the reference pattern of the input
C9_SamePattern ==
  (Done /\ tree.t = "object")
    => /\ returned = Ref(seen[tree.id])
       /\ \A c \in InputIds :
            /\ c \in DOMAIN seen
            /\ Len(heap[seen[c]].vals) = Len(heap[c].vals)
            /\ \A i \in 1..Len(heap[c].vals) :
                 IF heap[c].vals[i].t = "object"
                 THEN heap[seen[c]].vals[i] = Ref(seen[heap[c].vals[i].id])
                 ELSE heap[seen[c]].vals[i].t # "object"

\* the work left: the items not yet stored of the active calls, and the containers
\* not yet entered with all their items
SumOver(S, f(_)) ==
  LET RECURSIVE Sum(_)
      Sum(T) == IF T = {} THEN 0 ELSE LET x == CHOOSE y \in T : TRUE
                                        IN f(x) + Sum(T \ {x})
  IN Sum(S)

C9_WorkLeft ==
  LET notEntered(c) == ItemCount(heap, c) + 2
      active(i) == ItemCount(heap, stack[i].src) - stack[i].i + 2
  IN SumOver(InputIds \ DOMAIN seen, notEntered)
     + SumOver(1..Len(stack), active)
     + (IF tpc = "call" THEN 1 ELSE 0)

\* a call that has not returned can take a step
C9_CanStep ==
  \/ Done
  \/ Threw
  \/ tpc = "call" /\ tree.t \in {"string", "object"}
  \/ /\ tpc = "loop"
     /\ stack # <<>>
     /\ Top.src \in DOMAIN heap
     /\ Top.out \in DOMAIN heap

\* C9: traverse terminates on every finite object graph, cycles included (every step
\* strictly decreases the work left, which is never negative, and a call that has
\* not returned can always step); it enters each container at most once, a container
\* reached again maps to the one copy already built for it, and the output has the
\* same reference pattern as the input.
C9_TerminatesOnCycles ==
  /\ [][C9_WorkLeft' < C9_WorkLeft]_vars
  /\ [](C9_WorkLeft >= 0 /\ C9_CanStep /\ C9_VisitedOnce /\ C9_SamePattern)

C9_Witness ==
  /\ Done
  /\ returned.t = "object"
  /\ Cardinality(InputIds) = 2
  /\ Ref(1) \in {heap[1].vals[i] : i \in 1..Len(heap[1].vals)}
  /\ Ref(returned.id) \in {heap[returned.id].vals[i] : i \in 1..Len(heap[returned.id].vals)}
  /\ Ref(1) \in {heap[2].vals[i] : i \in 1..Len(heap[2].vals)}

\* ------------------------------------------------------------------------
\* C10
\* ------------------------------------------------------------------------
\* C10: the output has the shape of the input: a copy has the kind, the length, the
\* element order and exactly the own keys of its source (keys are not interpolated),
\* a string leaf is replace(leaf, variables, options), a number, boolean or null is
\* returned unchanged, and a container item is a container of the same kind.
C10_SameShape ==
  Done =>
    /\ tree.t = "string"
         => returned = StringValue(Replace(tree.s, variables, escape, maxPasses))
    /\ \A c \in InputIds :
         LET in == heap[c]
             out == heap[seen[c]]
         IN /\ out.kind = in.kind
            /\ out.keys = in.keys
            /\ Len(out.vals) = Len(in.vals)
            /\ \A i \in 1..Len(in.vals) :
                 LET v == in.vals[i]
                 IN CASE v.t = "string" ->
                           out.vals[i] = StringValue(Replace(v.s, variables, escape, maxPasses))
                      [] v.t = "object" ->
                           /\ out.vals[i].t = "object"
                           /\ heap[out.vals[i].id].kind = heap[v.id].kind
                      [] OTHER -> out.vals[i] = v

C10_Witness ==
  /\ Done
  /\ returned.t = "object"
  /\ heap[1] = Container("object", <<Plain(<<"A">>), <<"k">>>>, <<StringLeaf, NullValue>>)
  /\ heap[returned.id] =
       Container("object", <<Plain(<<"A">>), <<"k">>>>, <<StringValue(<<"x">>), NullValue>>)

\* ------------------------------------------------------------------------
\* C11
\* ------------------------------------------------------------------------
\* the items of container o
ItemsOf(o) == {heap[o].vals[j] : j \in 1..Len(heap[o].vals)}

\* C11: traverse visits and copies the own keys of a mapping only: the prototype of
\* an input object is never entered, its properties are not copied into any output
\* container, neither as written nor interpolated, and no output container has (as
\* an own key or through its prototype chain) a property the input only inherits.
C11_OwnKeysOnly ==
  \A p \in PrototypeIds :
    /\ ~SeenHas(seen, p)
    /\ \A i \in 1..Len(stack) : stack[i].src # p
    /\ \A o \in Copies, i \in 1..Len(heap[p].keys) :
         /\ heap[p].vals[i] \notin ItemsOf(o)
         /\ heap[p].vals[i].t = "string"
              => StringValue(Replacer(heap[p].vals[i].s)) \notin ItemsOf(o)
         /\ OwnIndex(heap[o], heap[p].keys[i]) = 0
         /\ Get(heap, o, heap[p].keys[i]) = UndefinedValue

C11_Witness ==
  /\ Done
  /\ returned.t = "object"
  /\ heap[1].proto \in PrototypeIds
  /\ Get(heap, 1, InheritedKey) = InheritedLeaf
  /\ heap[1].keys = <<Plain(<<"A">>)>>
  /\ heap[returned.id].keys = <<Plain(<<"A">>)>>
  /\ heap[returned.id].vals = <<StringValue(<<"x">>)>>

\* ------------------------------------------------------------------------
\* C12
\* ------------------------------------------------------------------------
\* s starts with p / ends with q
HasPrefix(s, p) == Len(p) <= Len(s) /\ SubSeq(s, 1, Len(p)) = p
HasSuffix(s, q) == Len(q) <= Len(s) /\ SubSeq(s, Len(s) - Len(q) + 1, Len(s)) = q

StoppedOnNoChange == Returned /\ passes <= maxPasses /\ ~anyChange

\* replace applied again to the returned string, same variables and options
Again == Replace(result, variables, escape, maxPasses)

\* C13 (as stated): whenever replace stops because a pass recorded no change,
\* replace(replace(s, V, O), V, O) = replace(s, V, O), with escape enabled as well
\* as disabled.
C13_IdempotentAtFixpoint == StoppedOnNoChange => Again = result

\* C13 (amended): whenever replace stops because a pass recorded no change and
\* escape is disabled, or escape is enabled and that pass left the string as it
\* found it (it met no escaped placeholder), replace of the returned string returns
\* it unchanged; with escape disabled a pass that records no change always leaves
\* the string as it found it.
C13_IdempotentUnlessEscapeStep ==
  StoppedOnNoChange =>
    /\ (~escape \/ result = previous) => Again = result
    /\ ~escape => result = previous

C13_Witness ==
  /\ StoppedOnNoChange
  /\ escape
  /\ passes = 2
  /\ result = previous
  /\ result # content
  /\ Again = result

\* ------------------------------------------------------------------------
\* C14
\* ------------------------------------------------------------------------
\* the part of the buffer lying after the cursor
Remainder(res, from) == Len(res) - from

\* position within one turn of the do ... while loop
Rank(p) == CASE p = "scan" -> 1 [] p = "while" -> 2 [] p = "do" -> 3 [] OTHER -> 4

\* every step moves down the order (passes left, position in the pass, remainder)
C14_Decreases ==
  \/ passes' > passes
  \/ passes' = passes /\ Rank(pc') > Rank(pc)
  \/ /\ passes' = passes
     /\ pc = "scan" /\ pc' = "scan"
     /\ Remainder(result', searchFrom') < Remainder(result, searchFrom)

\* the counters stay in range, a pass body runs only within the limit, and the
\* iteration about to handle a match shortens the remainder
C14_Bounded ==
  /\ passes <= maxPasses + 1
  /\ pc \in {"scan", "while"} => (passes >= 1 /\ passes <= maxPasses)
  /\ 0 <= searchFrom /\ searchFrom <= Len(result)
  /\ (pc = "scan" /\ FindNextPlaceholder(result, searchFrom).found)
       => LET n == Iterate(result, searchFrom, anyChange, variables, escape)
          IN /\ 0 <= n.searchFrom /\ n.searchFrom <= Len(n.result)
             /\ Remainder(n.result, n.searchFrom) < Remainder(result, searchFrom)

\* C14: replace terminates: the pass counter never exceeds maxPasses + 1 and a pass
\* body runs only while the counter is within maxPasses (at most maxPasses passes,
\* none for maxPasses = 0); inside a pass the cursor stays within the buffer and
\* every handled match (escaped, invalid or resolved) strictly shortens the part of
\* the buffer after the cursor; every step moves down a well-founded order. Values
\* and defaults that reference themselves or each other are included.
C14_ReplaceTerminates == [][C14_Decreases]_vars /\ []C14_Bounded

C14_Witness ==
  /\ Returned
  /\ maxPasses = MAX_INTERPOLATION_PASSES
  /\ passes = MAX_INTERPOLATION_PASSES + 1
  /\ content = Plain(<<"A">>)
  /\ variables[<<"A">>] = Plain(<<"B">>)
  /\ variables[<<"B">>] = Plain(<<"A">>)

\* ------------------------------------------------------------------------
\* C15
\* ------------------------------------------------------------------------
\* s is a string value: a finite sequence of characters
IsString(s) == DOMAIN s = 1..Len(s) /\ \A i \in 1..Len(s) : s[i] \in STRING

\* the indices and repeat counts the iteration about to run computes
C15_IndicesInRange ==
  (pc = "scan" /\ FindNextPlaceholder(result, searchFrom).found)
    => LET it == Iteration(result, searchFrom, escape)
           m == it.match
           b == it.backslashes
       IN /\ 0 <= searchFrom /\ searchFrom <= m.start
          /\ m.start + 2 <= m.end /\ m.end + 1 <= Len(result)
          /\ 0 <= b /\ 0 <= m.start - b
          /\ ~RepeatThrows(b \div 2)
          /\ ~RepeatThrows(b - RemoveOne(escape, b))
          /\ ~RepeatThrows(FinalBackslashes(escape, b))
          /\ ~Iterate(result, searchFrom, anyChange, variables, escape).threw

\* C15: replace never reaches an error state and always holds a string: no repeat
\* count is negative (no RangeError), every substring index lies within the buffer,
\* and for malformed syntax, invalid names, missing variables and an exhausted pass
\* limit alike the buffer, and the value returned, is an ordinary string.
C15_NoErrorState ==
  /\ ~threw
  /\ IsString(result)
  /\ pc \in {"do", "scan", "while", "return"}
  /\ C15_IndicesInRange

C15_Witness ==
  /\ Returned
  /\ ~threw
  /\ content = Open \o <<"{", "A", ":", "d", "}", "}">>
  /\ escape
  /\ last.path = "invalid"
  /\ result = content

\* ------------------------------------------------------------------------
\* C16
\* ------------------------------------------------------------------------
\* `$` immediately followed by `{` at index i of str
OpensAt(str, i) == At(str, i) = "$" /\ At(str, i + 1) = "{"

\* the number of indices in a..b at which str holds ch
Count(str, ch, a, b) == Cardinality({i \in a..b : At(str, i) = ch})

\* the brace depth after the character at index j, for a placeholder opened at start
Depth(str, start, j) ==
  1 + Count(str, "{", start + 2, j) - Count(str, "}", start + 2, j)

\* findNextPlaceholder has returned
Found == ppc \in {"parse", "validate", "end"} /\ match.found

\* C16: when findNextPlaceholder(str, from) returns a match, start is the smallest
\* index >= from where `$` is immediately followed by `{`; end is the first index
\* after the opener where the brace depth reaches 0 (it holds `}`); full is
\* str[start..end], inner is str[start+2..end-1], full = `${` + inner + `}`, and the
\* braces of inner are balanced.
C16_MatchIsFirstBalancedSpan ==
  Found =>
    /\ match.start >= searchFrom
    /\ OpensAt(content, match.start)
    /\ \A i \in searchFrom..(match.start - 1) : ~OpensAt(content, i)
    /\ match.end > match.start + 1
    /\ At(content, match.end) = "}"
    /\ Depth(content, match.start, match.end) = 0
    /\ \A j \in (match.start + 1)..(match.end - 1) : Depth(content, match.start, j) > 0
    /\ match.full = SubSeq(content, match.start + 1, match.end + 1)
    /\ match.inner = SubSeq(content, match.start + 3, match.end)
    /\ match.full = Open \o match.inner \o Close
    /\ Count(match.inner, "{", 0, Len(match.inner) - 1)
         = Count(match.inner, "}", 0, Len(match.inner) - 1)
    /\ \A j \in 0..(Len(match.inner) - 1) :
         Count(match.inner, "{", 0, j) >= Count(match.inner, "}", 0, j)

C16_Witness ==
  /\ Found
  /\ searchFrom = 6
  /\ match.start = 8
  /\ match.end = 16
  /\ match.inner = <<"B", ":">> \o Plain(<<"A">>)

\* ------------------------------------------------------------------------
\* C17
\* ------------------------------------------------------------------------
\* the index of the first `${` at or after the cursor, when it is never closed
UnclosedAt(res, from) ==
  IF FindStart(res, from) # -1 /\ FindEnd(res, FindStart(res, from) + 2, 1) = -1
  THEN FindStart(res, from)
  ELSE -1

\* what replace goes on to return from the end of the current pass
Outcome ==
  IF anyChange /\ result # previous
  THEN ReplaceLoop(result, passes, variables, escape, maxPasses)
  ELSE result

\* C17: when the first `${` at or after the cursor has no balancing `}`, the scan
\* finds no match and the pass ends; the text from that `${` to the end of the
\* buffer is then part of the returned string as it stands, whatever placeholders it
\* contains and whatever later passes do; and a string whose first `${` is unclosed
\* is never changed.
C17_UnclosedEndsThePass ==
  /\ (pc = "scan" /\ UnclosedAt(result, searchFrom) # -1)
       => ~FindNextPlaceholder(result, searchFrom).found
  /\ (pc = "while" /\ UnclosedAt(result, searchFrom) # -1)
       => HasSuffix(Outcome, SubstringFrom(result, UnclosedAt(result, searchFrom)))
  /\ UnclosedAt(content, 0) # -1 => result = content

C17_Witness ==
  /\ Returned
  /\ content = Plain(<<"A">>) \o Open \o <<"B">> \o Plain(<<"A">>)
  /\ <<"A">> \in DOMAIN variables
  /\ variables[<<"A">>] = <<"x">>
  /\ result = <<"x">> \o Open \o <<"B">> \o Plain(<<"A">>)

\* ------------------------------------------------------------------------
\* C18
\* ------------------------------------------------------------------------
\* parsePlaceholder has returned
Parsed == ppc \in {"validate", "end"} /\ match.found

HasChar(s, ch) == \E i \in 1..Len(s) : s[i] = ch

\* C18: parsePlaceholder(inner) splits at the first `:` whatever surrounds it: with
\* no `:` in inner the key is inner and the default is absent; otherwise the default
\* is present (possibly empty), the key holds no `:`, and key + `:` + defaultValue is
\* inner, so later colons, quotes, braces and backslashes stay in the default.
C18_SplitAtFirstColon ==
  Parsed =>
    /\ ~HasChar(match.inner, ":")
         => (parsed.key = match.inner /\ ~parsed.hasDefault)
    /\ HasChar(match.inner, ":")
         => /\ parsed.hasDefault
            /\ ~HasChar(parsed.key, ":")
            /\ parsed.key \o <<":">> \o parsed.defaultValue = match.inner

C18_Witness ==
  /\ Parsed
  /\ parsed.key = <<DQ, "A", DQ>>
  /\ parsed.hasDefault
  /\ parsed.defaultValue = <<DQ, "a", ":", "b", DQ>>

\* ------------------------------------------------------------------------
\* C19
\* ------------------------------------------------------------------------
\* isValidVarName has returned
Validated == ppc = "end" /\ match.found

\* an ASCII letter of either case, an ASCII digit, or the underscore
IsNameCharacter(ch) == ch \in Letters \/ ch \in Digits \/ ch = "_"

\* C19: isValidVarName(key) is true exactly when key is not empty and each of its
\* characters is an ASCII letter (either case), an ASCII digit or an underscore;
\* characters outside ASCII whose case folding is an ASCII letter, a line break
\* after the name, spaces, quotes and punctuation are rejected, and so are the keys
\* of `${}`, `${:foo}`, `${{VAR:default}}`, `${a-b}` and `${A@}`.
C19_NameValidity ==
  Validated =>
    /\ valid <=> (/\ Len(parsed.key) > 0
                  /\ \A i \in 1..Len(parsed.key) : IsNameCharacter(parsed.key[i]))
    /\ (content \in RejectedExamples /\ searchFrom = 0) => ~valid

C19_Witness ==
  /\ Validated
  /\ valid
  /\ parsed.key = <<"A", "_", "1">>

\* ------------------------------------------------------------------------
\* C20
\* ------------------------------------------------------------------------
\* findNextPlaceholder(str, from) has returned
Searched(str, from) == ppc # "find" /\ content = str /\ searchFrom = from

\* the returned match is { start, end, inner, full }
Returns(start, end, inner, full) ==
  match = [found |-> TRUE, start |-> start, end |-> end,
           inner |-> inner, full |-> full]

\* C20: findNextPlaceholder returns what its documentation shows: on
\* 'Hello ${NAME:Guest}!' start 6, end 17, inner 'NAME:Guest', full '${NAME:Guest}';
\* on '${GREETING:Hello ${USER:Guest}}' start 0, end 30 and the whole string as
\* full; on '${A:1} and ${B:2}' searched from index 7 start 9, end 14, inner 'B:2',
\* full '${B:2}'.
C20_DocumentedExamples ==
  /\ Searched(DocSimple, 0) =>
       Returns(6, 17, <<"N", "A", "M", "E", ":", "G", "u", "e", "s", "t">>,
               <<"$", "{", "N", "A", "M", "E", ":", "G", "u", "e", "s", "t", "}">>)
  /\ Searched(DocNested, 0) =>
       /\ match.found
       /\ match.start = 0
       /\ match.end = 30
       /\ match.full = DocNested
  /\ Searched(DocFromIndex, 7) =>
       Returns(9, 14, <<"B", ":", "2">>, <<"$", "{", "B", ":", "2", "}">>)

\* ------------------------------------------------------------------------
\* C21
\* ------------------------------------------------------------------------
\* the latest iteration handled a match that had an odd number of backslashes before it
OddBackslashes == last.path # "none" /\ last.backslashes % 2 = 1

\* C21: within a pass with escape enabled, a match preceded by an odd number n of
\* backslashes takes the escape step, whether its name is valid or not: the n
\* backslashes become floor(n/2), the whole span from `${` to its closing brace is
\* kept verbatim, the cursor is set just past the span and the change flag of the
\* pass is left as it was; the escape step is taken in no other case. Before an
\* invalid-name placeholder 1 backslash becomes 0 and 3 become 1.
C21_EscapeStep ==
  /\ (escape /\ OddBackslashes) <=> last.path = "escaped"
  /\ Iterated("escaped") =>
       /\ result = Before \o Backslashes(last.backslashes \div 2) \o last.full \o After
       /\ searchFrom = Len(Before) + (last.backslashes \div 2) + Len(last.full)
       /\ anyChange = last.changeBefore
       /\ \A n \in {1, 3} :
            last.before = Backslashes(n) \o Plain(<<"A", "-">>)
              => result = Backslashes(n \div 2) \o Plain(<<"A", "-">>)

C21_Witness ==
  /\ Iterated("escaped")
  /\ last.before = Backslashes(3) \o WithDefault(<<"A", "-">>, Plain(<<"B">>))
  /\ result = Backslashes(1) \o WithDefault(<<"A", "-">>, Plain(<<"B">>))
  /\ searchFrom = Len(result)
  /\ ~anyChange

\* ------------------------------------------------------------------------
\* C22
\* ------------------------------------------------------------------------
\* the latest iteration handled a placeholder whose name is not valid
InvalidNameHandled ==
  /\ last.path \in {"escaped", "invalid"}
  /\ Iterated(last.path)
  /\ ~IsValidVarName(last.key)

EvenBackslashesValidName ==
  /\ last.path # "none"
  /\ Iterated(last.path)
  /\ last.backslashes > 0
  /\ last.backslashes % 2 = 0
  /\ IsValidVarName(last.key)

\* C23: with escape enabled, a valid-name placeholder preceded by an even number
\* n > 0 of backslashes is not escaped: it takes the resolution path, the n
\* backslashes are replaced by n/2, and when the key has an entry the entry's value
\* follows them and a change is recorded; `\\${A:d}` with A = x returns one
\* backslash followed by x.
C23_EvenBackslashesHalved ==
  escape =>
    /\ EvenBackslashesValidName =>
         /\ last.path = "resolved"
         /\ HasPrefix(result, Before \o Backslashes(last.backslashes \div 2))
         /\ HasSuffix(result, After)
         /\ Len(result) >= Len(Before) + (last.backslashes \div 2) + Len(After)
         /\ last.key \in DOMAIN variables =>
              /\ result = Before \o Backslashes(last.backslashes \div 2)
                            \o variables[last.key] \o After
              /\ anyChange
    /\ (/\ Returned
        /\ maxPasses >= 1
        /\ content = Backslashes(2) \o WithDefault(<<"A">>, <<"d">>)
        /\ <<"A">> \in DOMAIN variables
        /\ variables[<<"A">>] = <<"x">>)
         => result = Backslashes(1) \o <<"x">>

C23_Witness ==
  /\ Returned
  /\ escape
  /\ content = Backslashes(2) \o WithDefault(<<"A">>, <<"d">>)
  /\ <<"A">> \in DOMAIN variables
  /\ variables[<<"A">>] = <<"x">>
  /\ result = Backslashes(1) \o <<"x">>

\* ------------------------------------------------------------------------
\* C24
\* ------------------------------------------------------------------------
\* every key of the independent inputs has an entry whose value holds no `${`
AllDefinedFlat ==
  /\ {<<"A">>, <<"B">>} \subseteq DOMAIN variables
  /\ \A k \in DOMAIN variables : ~Contains(variables[k], Open)

\* Independent(k) with each placeholder replaced by the value of its key
RECURSIVE Substituted(_)
Substituted(k) ==
  IF k = 0 THEN <<>>
  ELSE Substituted(k - 1)
       \o (IF k % 2 = 1 THEN variables[<<"A">>] ELSE variables[<<"B">>] \o <<"t">>)

\* the first pass has scanned the whole buffer
FirstPassDone == passes = 1 /\ pc = "while"

\* C24: the pass limit bounds passes, not placeholders: a string of k independent
\* placeholders (k up to MaxPlaceholders, more than maxPasses) whose keys all have
\* values free of `${` is fully resolved, left to right, by the end of the first
\* pass, for every maxPasses >= 1, and that is the string returned.
C24_AllResolvedInFirstPass ==
  \A k \in 1..MaxPlaceholders :
    (content = Independent(k) /\ maxPasses >= 1 /\ AllDefinedFlat) =>
      /\ FirstPassDone => result = Substituted(k)
      /\ Returned => result = Substituted(k)

\* ------------------------------------------------------------------------
\* C26
\* ------------------------------------------------------------------------
\* the text that lay before the cursor when the latest iteration began
EmittedBefore == Substring(last.before, 0, last.from)

\* C26: a substituted value is inserted verbatim and is not interpreted again within
\* the same pass: the text already emitted before the cursor is a prefix of the
\* buffer after every later iteration of the pass, so backslashes that end a value
\* are not counted as escape backslashes of the placeholder that follows; with A a
\* value ending in one backslash, `${A}${B}` is returned as the value of A, backslash
\* included, followed by the value of B, with escape enabled too.
C26_ValueNotReinterpreted ==
  /\ (last.path # "none" /\ Iterated(last.path)) => HasPrefix(result, EmittedBefore)
  /\ (/\ Returned
      /\ maxPasses >= 1
      /\ content = Plain(<<"A">>) \o Plain(<<"B">>)
      /\ variables = (<<"A">> :> <<"x", BS>>) @@ (<<"B">> :> <<"y">>))
       => result = <<"x", BS, "y">>

\* ------------------------------------------------------------------------
\* C25
\* ------------------------------------------------------------------------
\* every placeholder of str at or after index from, nested ones included, has an
\* invalid name
RECURSIVE OnlyInvalidNames(_, _)
OnlyInvalidNames(str, from) ==
  LET m == FindNextPlaceholder(str, from)
  IN ~m.found
       \/ /\ ~IsValidVarName(ParsePlaceholder(m.inner).key)
          /\ OnlyInvalidNames(str, m.start + 2)

\* the number of passes whose body ran (the counter is incremented once more when
\* the limit ends the loop)
PassesRun == Min(passes, maxPasses)

\* the variable map A = `${A:d}`, a value that names its own key
SelfReference == <<"A">> :> WithDefault(<<"A">>, <<"d">>)

\* C25: replace also stops as soon as a pass leaves the string identical to what it
\* was before that pass, even if the pass recorded a change: a further pass begins
\* only after a pass that recorded a change and altered the string; with A defined
\* as `${A:d}`, replace of `${A}` returns `${A:d}` for every maxPasses >= 1; and a
\* string whose only placeholders have invalid names is returned after a single
\* pass.
C25_StopsWhenPassKeepsString ==
  /\ (pc = "do" /\ passes >= 1) => (anyChange /\ result # previous)
  /\ (Returned /\ passes <= maxPasses) => (~anyChange \/ result = previous)
  /\ (Returned /\ maxPasses >= 1 /\ content = Plain(<<"A">>) /\ variables = SelfReference)
       => result = WithDefault(<<"A">>, <<"d">>)
  /\ (Returned /\ maxPasses >= 1 /\ FirstMatch.found /\ OnlyInvalidNames(content, 0))
       => PassesRun = 1

\* ------------------------------------------------------------------------
\* C27
\* ------------------------------------------------------------------------
\* C27: an iteration changes only the matched span and the run of backslashes
\* immediately before it: the text before that run and the text after the match are
\* in the buffer afterwards, unchanged, in the same order and not overlapping
\* (`$`, braces, colons, quotes and backslashes elsewhere included), so a pass
\* changes nothing else; a string that holds no `${`, the empty string included, is
\* never changed and is returned identical for every variable map and every option.
C27_OnlyMatchedSpansChange ==
  /\ (last.path # "none" /\ Iterated(last.path)) =>
       /\ HasPrefix(result, Before)
       /\ HasSuffix(result, After)
       /\ Len(result) >= Len(Before) + Len(After)
  /\ ~Contains(content, Open) => (result = content /\ last = NoIteration)

C27_Witness ==
  /\ Iterated("resolved")
  /\ escape
  /\ last.before = <<"t">> \o Backslashes(2) \o Plain(<<"A">>) \o <<"t">>
  /\ result = <<"t", BS, "x", "t">>

\* ------------------------------------------------------------------------
\* C28
\* ------------------------------------------------------------------------
\* the pass counter with which replace(text) leaves its loop
RECURSIVE FinalPasses(_, _, _, _, _)
FinalPasses(res, npasses, map, esc, limit) ==
  IF ~WithinPassLimit(npasses + 1, limit) THEN npasses + 1
  ELSE LET p == RunPass(res, 0, FALSE, map, esc)
       IN IF p.anyChange /\ p.result # res
          THEN FinalPasses(p.result, npasses + 1, map, esc, limit)
          ELSE npasses + 1

\* replace(text) under the current map and options stops before the pass limit
WithinLimit(text) == FinalPasses(text, 0, variables, escape, maxPasses) <= maxPasses

\* replace(text) under the current map and options
Alone(text) == Replace(text, variables, escape, maxPasses)

\* the separator: not empty, free of `$`, braces and backslashes
Separator == <<"t">>

\* C28: the resolution of one placeholder does not depend on unrelated placeholders
\* elsewhere: for s1 and s2 with balanced braces and the separator t,
\* replace(s1 + t + s2) = replace(s1) + t + replace(s2) under the same map and
\* options, provided none of the three runs hits the pass limit.
C28_SegmentsIndependent ==
  (Returned /\ passes <= maxPasses) =>
    \A s1 \in FirstSegments, s2 \in SecondSegments :
      (content = s1 \o Separator \o s2 /\ WithinLimit(s1) /\ WithinLimit(s2))
        => result = Alone(s1) \o Separator \o Alone(s2)

\* ------------------------------------------------------------------------
\* C29
\* ------------------------------------------------------------------------
\* C29: a valid name counts as defined only if the variable map itself holds an
\* entry for it: a name every object inherits, such as toString, is treated as
\* undefined when the map has no own entry for it, so the iteration that resolves
\* `${toString}` leaves the buffer as it was, `${toString}` is returned as written
\* and `${toString:d}` yields d.
C29_OwnEntriesOnly ==
  toString \notin DOMAIN variables =>
    /\ (Iterated("resolved") /\ last.key = toString /\ ~last.hasDefault
          /\ last.backslashes = 0)
         => result = last.before
    /\ (Returned /\ maxPasses >= 1) =>
         /\ content = Plain(toString) => result = content
         /\ content = WithDefault(toString, <<"d">>) => result = <<"d">>

\* ------------------------------------------------------------------------
\* C30
\* ------------------------------------------------------------------------
\* replace returned before the pass limit: the last pass recorded no change or left
\* the string identical
StoppedBeforeLimit == Returned /\ passes <= maxPasses

\* C30: with escape disabled, replace is idempotent whenever the first call stopped
\* before the pass limit: replace(replace(s, V, O), V, O) = replace(s, V, O), for
\* maps whose values hold placeholders or reference themselves too.
C30_IdempotentEscapeDisabled ==
  (~escape /\ StoppedBeforeLimit) =>
    /\ ~anyChange \/ result = previous
    /\ Again = result

C30_Witness ==
  /\ ~escape
  /\ StoppedBeforeLimit
  /\ content = Plain(<<"A">>)
  /\ variables = SelfReference
  /\ anyChange
  /\ result = previous
  /\ result # content
  /\ Again = result

====
